---------------------------- MODULE Spec2Model ----------------------------
(***************************************************************************)
(* A model of treasury_sim/generators.py: the seeding convention and the   *)
(* generators generate_payments, generate_cash_flows,                       *)
(* generate_commodity_prices, generate_fx_rates and                         *)
(* generate_daily_cash_position.                                            *)
(*                                                                          *)
(* Conventions.                                                             *)
(*  - A date is a day number; day 0 is Monday 2024-01-01, so that           *)
(*    datetime.weekday() is d % 7 (Monday = 0).                             *)
(*  - Money is an integer number of mills (1/1000 of a currency unit), so   *)
(*    that round(x, 2) and round(x, -4) both do something.                  *)
(*  - In the per-generator specifications a sampling call is a choice from  *)
(*    a small set of the values the call can return; in SpecSeed the two    *)
(*    random sources are deterministic state machines.                      *)
(*  - A table is represented by the row the step just taken appended and   *)
(*    the number of rows appended so far: rows are never changed after      *)
(*    they are appended, so a property of the appended row in every         *)
(*    reachable state is a property of every row of the returned table.     *)
(***************************************************************************)
EXTENDS Integers, Sequences, FiniteSets, TLC

VARIABLES
    \* ---- generate_payments ----
    pay_pc,          \* position in generate_payments
    p_days,          \* parameter days
    p_daily_count,   \* parameter daily_count
    p_base_date,     \* base_date = datetime.now() - timedelta(days)
    beneficiaries,   \* the normal beneficiary pool
    p_day_offset,    \* loop variable of  for day_offset in range(days)
    n_payments,      \* np.random.poisson(daily_count) of the current day
    p_i,             \* loop variable of  for i in range(n_payments)
    is_anomaly, anomaly_reasons, beneficiary, amount, hour,
    triggered,       \* the anomaly branches taken for this payment (history)
    p_row,           \* the row the step just taken appended to data, else NoRow
    p_n_rows,        \* len(data)
    p_result,        \* "none" while running, then "table" or "raise"
    \* ---- which of generate_cash_flows, generate_commodity_prices is called ----
    call,
    \* ---- generate_cash_flows ----
    cf_pc,           \* position in generate_cash_flows
    cf_days,         \* parameter days
    cf_n_accounts,   \* parameter n_accounts
    cf_base_date,    \* parameter base_date, or datetime.now() - timedelta(days)
    account_currencies,  \* account index -> currency
    cf_day_offset,   \* loop variable of  for day_offset in range(days)
    account_idx,     \* loop variable of  for account_idx in range(n_accounts)
    n_supplier_payments, \* int(np.random.poisson(3) * month_end_multiplier)
    cf_k,            \* loop variable of  for _ in range(n_supplier_payments)
    transaction_id,
    cf_row,          \* the row the step just taken appended to data, else NoRow
    cf_dates,        \* the distinct values of the date column of data
    cf_result,       \* "none" while running, then "table" or "raise"
    \* ---- generate_commodity_prices ----
    cm_pc,           \* position in generate_commodity_prices
    cm_days,         \* parameter days
    commodities,     \* parameter commodities (the default list for None)
    cm_base_date,    \* datetime.now() - timedelta(days)
    cm_day_offset,   \* loop variable of  for day_offset in range(days)
    cm_idx,          \* position of  for commodity in commodities
    prices,          \* commodity -> running price
    common_shock,    \* the day's common shock
    cm_row,          \* the row the step just taken appended to data, else NoRow
    closes,          \* the close column of data: date -> commodity -> close
    df_pivot,        \* the pivot table returned: date -> column -> value
    cm_result,       \* "none" while running, then "table" or "raise"
    \* ---- the seeding convention ----
    np_state,        \* the state of numpy's global random source
    py_state,        \* the state of the random module's source
    now,             \* datetime.now()
    s_last,          \* the generator call the step just taken made, when it has the
                     \* seed and parameters of the first call; else NoCall (history)
    s_first,         \* the first generator call made (history)
    \* ---- generate_fx_rates ----
    fx_pc,           \* position in generate_fx_rates
    fx_days,         \* parameter days (freq = 'D': periods = days)
    currency_pairs,  \* parameter currency_pairs (the default list for None)
    fx_pair_idx,     \* position of  for pair in currency_pairs
    fx_i,            \* loop variable of  for i in range(periods)
    prev_rate,       \* the running rate of the pair
    fx_row,          \* the row the step just taken appended to data, else NoRow
    fx_n_rows,       \* len(data)
    fx_result,       \* "none" while running, then "table"
    \* ---- generate_daily_cash_position ----
    cp_pc,           \* position in generate_daily_cash_position
    cp_days,         \* parameter days
    cp_n_accounts,   \* parameter n_accounts
    cp_base_date,    \* datetime.now() - timedelta(days)
    balances,        \* account index -> running balance
    cp_day_offset,   \* loop variable of  for day_offset in range(days)
    cp_account,      \* position of  for account_id in balances.keys()
    cp_row,          \* the row the step just taken appended to data, else NoRow
    cp_keys,         \* the (date, account_id) of each row of data, in order
    cp_closed,       \* account index -> the closing of its last row (history)
    cp_result        \* "none" while running, then "table"

payVars == <<pay_pc, p_days, p_daily_count, p_base_date, beneficiaries, p_day_offset, n_payments,
             p_i, is_anomaly, anomaly_reasons, beneficiary, amount, hour,
             triggered, p_row, p_n_rows, p_result>>

cfVars == <<cf_pc, cf_days, cf_n_accounts, cf_base_date, account_currencies, cf_day_offset,
            account_idx, n_supplier_payments, cf_k, transaction_id, cf_row, cf_dates,
            cf_result>>

cmVars == <<cm_pc, cm_days, commodities, cm_base_date, cm_day_offset, cm_idx, prices,
            common_shock, cm_row, closes, df_pivot, cm_result>>

seedVars == <<np_state, py_state, now, s_last, s_first>>

fxVars == <<fx_pc, fx_days, currency_pairs, fx_pair_idx, fx_i, prev_rate, fx_row, fx_n_rows,
            fx_result>>

cpVars == <<cp_pc, cp_days, cp_n_accounts, cp_base_date, balances, cp_day_offset, cp_account,
            cp_row, cp_keys, cp_closed, cp_result>>

nonPayVars == <<call, cfVars, cmVars, seedVars, fxVars, cpVars>>

vars == <<payVars, call, cfVars, cmVars, seedVars, fxVars, cpVars>>

--------------------------------------------------------------------------
(* Bounds of the model.                                                    *)
MaxDays == 1
MaxPoisson == 1
PoolSize == 1
MaxSeriesDays == 2
MaxAccounts == 1

(* The calendar of 2023 and 2024: day 0 is Monday 2024-01-01, day -365 is  *)
(* Sunday 2023-01-01.                                                      *)
MonthLengths == <<31, 29, 31, 30, 31, 30, 31, 31, 30, 31, 30, 31>>
CommonYearLengths == <<31, 28, 31, 30, 31, 30, 31, 31, 30, 31, 30, 31>>

LengthsOf(d) == IF d < 0 THEN CommonYearLengths ELSE MonthLengths
DayOfYear(d) == IF d < 0 THEN d + 365 ELSE d

RECURSIVE DaysBefore(_, _)
DaysBefore(lengths, m) ==
    IF m = 1 THEN 0 ELSE DaysBefore(lengths, m - 1) + lengths[m - 1]

Month(d) ==
    LET lengths == LengthsOf(d)
    IN  CHOOSE m \in 1 .. 12 :
           /\ DaysBefore(lengths, m) <= DayOfYear(d)
           /\ DayOfYear(d) < DaysBefore(lengths, m) + lengths[m]
DayOfMonth(d) == DayOfYear(d) - DaysBefore(LengthsOf(d), Month(d)) + 1

(* Calendar.                                                               *)
Weekday(d) == d % 7

(* Python's round(x, ndigits) on a float, for x >= 0 held in mills:        *)
(* round to the nearest multiple of unit, ties to the even multiple.       *)
RoundHalfEven(x, unit) ==
    LET q == x \div unit
        r == x % unit
    IN  IF 2 * r < unit THEN q * unit
        ELSE IF 2 * r > unit THEN (q + 1) * unit
        ELSE IF q % 2 = 0 THEN q * unit ELSE (q + 1) * unit

Cent == 10
TenThousand == 10000000

NoRow == [kind |-> "none"]

NoCall == [gen |-> "none"]

(* The state of the seeding model while one generator is looked at alone.  *)
IdleSeed ==
    /\ np_state = 0
    /\ py_state = 0
    /\ now = 0
    /\ s_last = NoCall
    /\ s_first = NoCall

--------------------------------------------------------------------------
(* generate_payments                                                       *)

normal_countries == {"TR", "US", "DE", "GB", "NL"}
high_risk_countries == {"RU", "IR", "KP", "SY", "VE"}
new_vendor_countries == high_risk_countries \cup {"TR", "US"}
unusual_hours == {2, 3, 4, 22, 23}
business_hours == 9 .. 17

(* Values the sampling calls of generate_payments are drawn from.          *)
AvgAmounts == {1300000, 22026465}      \* np.random.lognormal(10, 1), in mills
new_vendor_avg_amount == 50000000      \* 'avg_amount': 50000
UniformFactors == {5, 19}              \* np.random.uniform(5, 20)
LognormalFactors == {<<1, 2>>, <<3, 1>>}  \* np.random.lognormal(0, 0.5) as num/den
NewVendorSuffixes == {11881375}    \* random.choices(ascii_uppercase, k=5), as an index
NewAccountNumbers == {1000000}  \* np.random.randint(1000000, 9999999)
DailyCounts == {-1, 0, 50}             \* values of the parameter daily_count
PayBaseDates == 4 .. 6                 \* values of datetime.now() - timedelta(days)

NoBeneficiary ==
    [name |-> [prefix |-> "", n |-> 0], country |-> "", account |-> [prefix |-> "", n |-> 0],
     avg_amount |-> 0]

PoolBeneficiary(k, c, a) ==
    [name |-> [prefix |-> "SUPPLIER", n |-> k], country |-> c,
     account |-> [prefix |-> "IBAN", n |-> k], avg_amount |-> a]

(* '|'.join(anomaly_reasons) if anomaly_reasons else None: the joined       *)
(* string is held as the sequence of its parts, None as the value None.     *)
None == <<"None">>
JoinReasons(reasons) == IF reasons # <<>> THEN reasons ELSE None

(* AnomalyScore with the count divided by the four labels a payment can    *)
(* carry at once instead of by 5.                                           *)
AnomalyScore_Mut(reasons) == IF reasons # <<>> THEN (Len(reasons) * 100) \div 4 ELSE 0

(* len(anomaly_reasons) / 5 if anomaly_reasons else 0, in hundredths.       *)
AnomalyScore(reasons) == IF reasons # <<>> THEN (Len(reasons) * 100) \div 5 ELSE 0

IdleCF ==
    /\ cf_pc = "idle"
    /\ cf_days = 0
    /\ cf_n_accounts = 0
    /\ cf_base_date = 0
    /\ account_currencies = <<>>
    /\ cf_day_offset = 0
    /\ account_idx = 0
    /\ n_supplier_payments = 0
    /\ cf_k = 0
    /\ transaction_id = 1000
    /\ cf_row = NoRow
    /\ cf_dates = {}
    /\ cf_result = "none"

IdleFX ==
    /\ fx_pc = "idle"
    /\ fx_days = 0
    /\ currency_pairs = <<>>
    /\ fx_pair_idx = 1
    /\ fx_i = 0
    /\ prev_rate = 0
    /\ fx_row = NoRow
    /\ fx_n_rows = 0
    /\ fx_result = "none"

IdleCP ==
    /\ cp_pc = "idle"
    /\ cp_days = 0
    /\ cp_n_accounts = 0
    /\ cp_base_date = 0
    /\ balances = <<>>
    /\ cp_day_offset = 0
    /\ cp_account = 0
    /\ cp_row = NoRow
    /\ cp_keys = <<>>
    /\ cp_closed = <<>>
    /\ cp_result = "none"

IdleCM ==
    /\ cm_pc = "idle"
    /\ cm_days = 0
    /\ commodities = <<>>
    /\ cm_base_date = 0
    /\ cm_day_offset = 0
    /\ cm_idx = 1
    /\ prices = <<>>
    /\ common_shock = 0
    /\ cm_row = NoRow
    /\ closes = <<>>
    /\ df_pivot = <<>>
    /\ cm_result = "none"

InitPay ==
    /\ call = "none"
    /\ IdleSeed
    /\ IdleFX
    /\ IdleCP
    /\ IdleCF
    /\ IdleCM
    /\ pay_pc = "start"
    /\ p_days \in -1 .. MaxDays
    /\ p_daily_count \in DailyCounts
    /\ p_base_date \in PayBaseDates
    /\ beneficiaries = <<>>
    /\ p_day_offset = 0
    /\ n_payments = 0
    /\ p_i = 0
    /\ is_anomaly = FALSE
    /\ anomaly_reasons = <<>>
    /\ beneficiary = NoBeneficiary
    /\ amount = 0
    /\ hour = 0
    /\ triggered = {}
    /\ p_row = NoRow
    /\ p_n_rows = 0
    /\ p_result = "none"

(* Lines 440-452: set_seed, data = [], base_date, the beneficiary pool.     *)
PaySetup ==
    /\ pay_pc = "start"
    /\ \E c \in [0 .. PoolSize - 1 -> normal_countries], a \in [0 .. PoolSize - 1 -> AvgAmounts] :
          beneficiaries' = [k \in 0 .. PoolSize - 1 |-> PoolBeneficiary(k, c[k], a[k])]
    /\ pay_pc' = "day"
    /\ p_row' = NoRow
    /\ UNCHANGED <<p_days, p_daily_count, p_base_date, p_day_offset, n_payments, p_i,
                   is_anomaly, anomaly_reasons, beneficiary, amount, hour, triggered, p_n_rows, p_result>>
    /\ UNCHANGED nonPayVars

(* Lines 454-459: a weekend day is skipped.                                 *)
PaySkipWeekend ==
    /\ pay_pc = "day"
    /\ p_day_offset < p_days
    /\ Weekday(p_base_date + p_day_offset) >= 5
    /\ p_day_offset' = p_day_offset + 1
    /\ p_row' = NoRow
    /\ UNCHANGED <<pay_pc, p_days, p_daily_count, p_base_date, beneficiaries, n_payments, p_i,
                   is_anomaly, anomaly_reasons, beneficiary, amount, hour, triggered, p_n_rows, p_result>>
    /\ UNCHANGED nonPayVars

(* Line 461: n_payments = np.random.poisson(daily_count); poisson raises    *)
(* ValueError for a negative lam and returns 0 for lam = 0.                 *)
PayStartDay ==
    /\ pay_pc = "day"
    /\ p_day_offset < p_days
    /\ Weekday(p_base_date + p_day_offset) < 5
    /\ IF p_daily_count < 0
         THEN /\ pay_pc' = "done"
              /\ p_result' = "raise"
              /\ UNCHANGED <<n_payments, p_i, p_day_offset>>
         ELSE /\ \E n \in (IF p_daily_count = 0 THEN {0} ELSE 0 .. MaxPoisson) :
                    /\ n_payments' = n
                    /\ IF n = 0
                         THEN pay_pc' = "day" /\ p_day_offset' = p_day_offset + 1
                         ELSE pay_pc' = "flag" /\ p_day_offset' = p_day_offset
              /\ p_i' = 0
              /\ p_result' = p_result
    /\ p_row' = NoRow
    /\ UNCHANGED <<p_days, p_daily_count, p_base_date, beneficiaries,
                   is_anomaly, anomaly_reasons, beneficiary, amount, hour, triggered, p_n_rows>>
    /\ UNCHANGED nonPayVars

(* Lines 464-465: the anomaly flag is drawn, the reasons start empty.       *)
PayFlag ==
    /\ pay_pc = "flag"
    /\ is_anomaly' \in BOOLEAN
    /\ anomaly_reasons' = <<>>
    /\ triggered' = {}
    /\ pay_pc' = "beneficiary"
    /\ p_row' = NoRow
    /\ UNCHANGED <<p_days, p_daily_count, p_base_date, beneficiaries, p_day_offset,
                   n_payments, p_i, beneficiary, amount, hour, p_n_rows, p_result>>
    /\ UNCHANGED nonPayVars

(* Lines 467-478: a new vendor for some flagged payments, else one of the   *)
(* pool.                                                                    *)
PayBeneficiary ==
    /\ pay_pc = "beneficiary"
    /\ \/ /\ is_anomaly
          /\ \E s \in NewVendorSuffixes, c \in new_vendor_countries, n \in NewAccountNumbers :
                beneficiary' = [name |-> [prefix |-> "NEW_VENDOR", n |-> s], country |-> c,
                                account |-> [prefix |-> "IBAN_NEW", n |-> n],
                                avg_amount |-> new_vendor_avg_amount]
          /\ anomaly_reasons' = Append(anomaly_reasons, "NEW_BENEFICIARY")
          /\ triggered' = triggered \cup {"new_beneficiary"}
       \/ /\ \E k \in DOMAIN beneficiaries : beneficiary' = beneficiaries[k]
          /\ UNCHANGED <<anomaly_reasons, triggered>>
    /\ pay_pc' = "amount"
    /\ p_row' = NoRow
    /\ UNCHANGED <<p_days, p_daily_count, p_base_date, beneficiaries, p_day_offset,
                   n_payments, p_i, is_anomaly, amount, hour, p_n_rows,
                   p_result>>
    /\ UNCHANGED nonPayVars

(* PayAmount with the inflation drawn from uniform(5, 30).                  *)
PayAmount_Mut ==
    /\ pay_pc = "amount"
    /\ \/ /\ is_anomaly
          /\ \E u \in {5, 25} : amount' = beneficiary.avg_amount * u
          /\ anomaly_reasons' = Append(anomaly_reasons, "UNUSUAL_AMOUNT")
          /\ triggered' = triggered \cup {"inflated"}
       \/ /\ \E f \in LognormalFactors : amount' = (beneficiary.avg_amount * f[1]) \div f[2]
          /\ UNCHANGED <<anomaly_reasons, triggered>>
    /\ pay_pc' = "round"
    /\ p_row' = NoRow
    /\ UNCHANGED <<p_days, p_daily_count, p_base_date, beneficiaries, p_day_offset,
                   n_payments, p_i, is_anomaly, beneficiary, hour, p_n_rows, p_result>>
    /\ UNCHANGED nonPayVars

(* Lines 480-485: the amount, inflated for some flagged payments.           *)
PayAmount ==
    /\ pay_pc = "amount"
    /\ \/ /\ is_anomaly
          /\ \E u \in UniformFactors : amount' = beneficiary.avg_amount * u
          /\ anomaly_reasons' = Append(anomaly_reasons, "UNUSUAL_AMOUNT")
          /\ triggered' = triggered \cup {"inflated"}
       \/ /\ \E f \in LognormalFactors : amount' = (beneficiary.avg_amount * f[1]) \div f[2]
          /\ UNCHANGED <<anomaly_reasons, triggered>>
    /\ pay_pc' = "round"
    /\ p_row' = NoRow
    /\ UNCHANGED <<p_days, p_daily_count, p_base_date, beneficiaries, p_day_offset,
                   n_payments, p_i, is_anomaly, beneficiary, hour, p_n_rows, p_result>>
    /\ UNCHANGED nonPayVars

(* Lines 487-491: the amount of some flagged payments is rounded to the     *)
(* nearest 10000; the reason is recorded unless UNUSUAL_AMOUNT already is.  *)
PayRound ==
    /\ pay_pc = "round"
    /\ \/ /\ is_anomaly
          /\ amount' = RoundHalfEven(amount, TenThousand)
          /\ triggered' = triggered \cup {"rounded"}
          /\ anomaly_reasons' =
                IF \A j \in DOMAIN anomaly_reasons : anomaly_reasons[j] # "UNUSUAL_AMOUNT"
                  THEN Append(anomaly_reasons, "ROUND_AMOUNT")
                  ELSE anomaly_reasons
       \/ UNCHANGED <<amount, triggered, anomaly_reasons>>
    /\ pay_pc' = "country"
    /\ p_row' = NoRow
    /\ UNCHANGED <<p_days, p_daily_count, p_base_date, beneficiaries, p_day_offset,
                   n_payments, p_i, is_anomaly, beneficiary, hour, p_n_rows, p_result>>
    /\ UNCHANGED nonPayVars

(* PayCountry with VE missing from the list the country is looked up in.    *)
PayCountry_Mut ==
    /\ pay_pc = "country"
    /\ IF beneficiary.country \in {"RU", "IR", "KP", "SY"}
         THEN /\ anomaly_reasons' = Append(anomaly_reasons, "HIGH_RISK_COUNTRY")
              /\ is_anomaly' = TRUE
              /\ triggered' = triggered \cup {"high_risk"}
         ELSE UNCHANGED <<anomaly_reasons, is_anomaly, triggered>>
    /\ pay_pc' = "time"
    /\ p_row' = NoRow
    /\ UNCHANGED <<p_days, p_daily_count, p_base_date, beneficiaries, p_day_offset,
                   n_payments, p_i, beneficiary, amount, hour, p_n_rows, p_result>>
    /\ UNCHANGED nonPayVars

(* Lines 493-496: a high-risk country is recorded and forces the flag.      *)
PayCountry ==
    /\ pay_pc = "country"
    /\ IF beneficiary.country \in high_risk_countries
         THEN /\ anomaly_reasons' = Append(anomaly_reasons, "HIGH_RISK_COUNTRY")
              /\ is_anomaly' = TRUE
              /\ triggered' = triggered \cup {"high_risk"}
         ELSE UNCHANGED <<anomaly_reasons, is_anomaly, triggered>>
    /\ pay_pc' = "time"
    /\ p_row' = NoRow
    /\ UNCHANGED <<p_days, p_daily_count, p_base_date, beneficiaries, p_day_offset,
                   n_payments, p_i, beneficiary, amount, hour, p_n_rows,
                   p_result>>
    /\ UNCHANGED nonPayVars

(* PayTime with the unusual hour drawn without looking at the flag.         *)
PayTime_Mut ==
    /\ pay_pc = "time"
    /\ \/ /\ hour' \in unusual_hours
          /\ anomaly_reasons' = Append(anomaly_reasons, "UNUSUAL_TIME")
          /\ triggered' = triggered \cup {"unusual_hour"}
       \/ /\ hour' \in business_hours
          /\ UNCHANGED <<anomaly_reasons, triggered>>
    /\ pay_pc' = "append"
    /\ p_row' = NoRow
    /\ UNCHANGED <<p_days, p_daily_count, p_base_date, beneficiaries, p_day_offset,
                   n_payments, p_i, is_anomaly, beneficiary, amount, p_n_rows, p_result>>
    /\ UNCHANGED nonPayVars

(* Lines 498-503: the hour, unusual for some flagged payments.              *)
PayTime ==
    /\ pay_pc = "time"
    /\ \/ /\ is_anomaly
          /\ hour' \in unusual_hours
          /\ anomaly_reasons' = Append(anomaly_reasons, "UNUSUAL_TIME")
          /\ triggered' = triggered \cup {"unusual_hour"}
       \/ /\ hour' \in business_hours
          /\ UNCHANGED <<anomaly_reasons, triggered>>
    /\ pay_pc' = "append"
    /\ p_row' = NoRow
    /\ UNCHANGED <<p_days, p_daily_count, p_base_date, beneficiaries, p_day_offset,
                   n_payments, p_i, is_anomaly, beneficiary, amount, p_n_rows, p_result>>
    /\ UNCHANGED nonPayVars

(* Lines 505-520: the row is appended.  The minute of the timestamp and the *)
(* columns currency, payment_type and initiated_by are draws nothing reads  *)
(* and are left out; avg_amount and triggered are kept beside the row to    *)
(* state claims about it.                                                   *)
PayAppend ==
    /\ pay_pc = "append"
    /\ p_row' = [kind |-> "payment",
                    payment_id |-> <<p_day_offset, p_i>>,
                    timestamp |-> [date |-> p_base_date + p_day_offset, hour |-> hour],
                    amount |-> RoundHalfEven(amount, Cent),
                    beneficiary_name |-> beneficiary.name,
                    beneficiary_account |-> beneficiary.account,
                    beneficiary_country |-> beneficiary.country,
                    is_anomaly |-> is_anomaly,
                    anomaly_reasons |-> JoinReasons(anomaly_reasons),
                    anomaly_score |-> AnomalyScore(anomaly_reasons),
                    avg_amount |-> beneficiary.avg_amount,
                    triggered |-> triggered]
    /\ p_n_rows' = p_n_rows + 1
    /\ p_i' = p_i + 1
    /\ IF p_i + 1 < n_payments
         THEN pay_pc' = "flag" /\ p_day_offset' = p_day_offset
         ELSE pay_pc' = "day" /\ p_day_offset' = p_day_offset + 1
    \* the locals of the loop body are dead here: each is assigned again before
    \* it is read
    /\ is_anomaly' = FALSE
    /\ anomaly_reasons' = <<>>
    /\ beneficiary' = NoBeneficiary
    /\ amount' = 0
    /\ hour' = 0
    /\ triggered' = {}
    /\ UNCHANGED <<p_days, p_daily_count, p_base_date, beneficiaries, n_payments, p_result>>
    /\ UNCHANGED nonPayVars

(* Line 522: return pd.DataFrame(data), also of an empty list.              *)
PayReturn ==
    /\ pay_pc = "day"
    /\ p_day_offset >= p_days
    /\ pay_pc' = "done"
    /\ p_result' = "table"
    /\ p_row' = NoRow
    /\ UNCHANGED <<p_days, p_daily_count, p_base_date, beneficiaries, p_day_offset,
                   n_payments, p_i, is_anomaly, anomaly_reasons, beneficiary, amount, hour,
                   triggered, p_n_rows>>
    /\ UNCHANGED nonPayVars

NextPay ==
    \/ PaySetup \/ PaySkipWeekend \/ PayStartDay \/ PayFlag \/ PayBeneficiary
    \/ PayAmount \/ PayRound \/ PayCountry \/ PayTime \/ PayAppend \/ PayReturn

SpecPay == InitPay /\ [][NextPay]_vars

--------------------------------------------------------------------------
(* Claims about generate_payments, checked under SpecPay.                  *)

IsPayment == p_row.kind = "payment"
HasReason(col, r) == \E j \in DOMAIN col : col[j] = r

(* C2: in every row of generate_payments, is_anomaly true implies that     *)
(* anomaly_reasons is not None.  The code breaks it: a flagged payment for  *)
(* which no anomaly branch is drawn is appended with anomaly_reasons None.  *)
C2_FlagImpliesReasons ==
    IsPayment => (p_row.is_anomaly => p_row.anomaly_reasons # None)

(* C6: a call of generate_payments with a negative day count ends in a     *)
(* raised error and returns no table.  The code breaks it: range(days) is   *)
(* empty and the table of an empty list is returned.                        *)
C6_NegativeDaysRaise ==
    (pay_pc = "done" /\ p_days < 0) => p_result = "raise"

(* C7: every row whose beneficiary_country is RU, IR, KP, SY or VE has      *)
(* is_anomaly true and HIGH_RISK_COUNTRY among its anomaly_reasons.         *)
C7_HighRiskCountryFlagged ==
    (IsPayment /\ p_row.beneficiary_country \in {"RU", "IR", "KP", "SY", "VE"})
        => (p_row.is_anomaly /\ HasReason(p_row.anomaly_reasons, "HIGH_RISK_COUNTRY"))

C7_Witness ==
    /\ IsPayment
    /\ p_row.beneficiary_country = "VE"
    /\ p_row.is_anomaly
    /\ HasReason(p_row.anomaly_reasons, "HIGH_RISK_COUNTRY")

(* C8, as claimed: anomaly_score is the number of the five anomaly          *)
(* branches taken for the payment, divided by 5 (here in hundredths).       *)
C8_ScoreCountsTriggered ==
    IsPayment => p_row.anomaly_score = (Cardinality(p_row.triggered) * 100) \div 5

(* C8, amended: anomaly_score is the number of recorded reasons divided by  *)
(* 5, where the rounding of the amount is recorded only when the amount was *)
(* not also inflated; it is 0 when no reason is recorded.                   *)
C8_ScoreCountsRecorded ==
    IsPayment =>
        LET counted == IF "inflated" \in p_row.triggered
                         THEN p_row.triggered \ {"rounded"}
                         ELSE p_row.triggered
        IN  p_row.anomaly_score = (Cardinality(counted) * 100) \div 5

C8_Witness ==
    /\ IsPayment
    /\ {"inflated", "rounded"} \subseteq p_row.triggered
    /\ p_row.anomaly_score = 20

(* C9: every row whose is_anomaly is false has anomaly_reasons None,        *)
(* anomaly_score 0, a beneficiary of the normal pool and an hour in 9..17;  *)
(* and a row whose anomaly_reasons is not None has is_anomaly true.         *)
C9_UnflaggedRowsAreNormal ==
    IsPayment =>
        /\ ~p_row.is_anomaly =>
              /\ p_row.anomaly_reasons = None
              /\ p_row.anomaly_score = 0
              /\ \E k \in DOMAIN beneficiaries :
                    /\ beneficiaries[k].name = p_row.beneficiary_name
                    /\ beneficiaries[k].account = p_row.beneficiary_account
                    /\ beneficiaries[k].country = p_row.beneficiary_country
              /\ p_row.timestamp.hour \in 9 .. 17
        /\ p_row.anomaly_reasons # None => p_row.is_anomaly

C9_Witness ==
    /\ IsPayment
    /\ ~p_row.is_anomaly
    /\ p_row.anomaly_reasons = None
    /\ p_row.timestamp.hour = 17

(* C10, as claimed: every row whose anomaly_reasons contains UNUSUAL_AMOUNT *)
(* has an amount between 5 and 20 times the avg_amount of its beneficiary.  *)
C10_InflatedAmountInRange ==
    (IsPayment /\ HasReason(p_row.anomaly_reasons, "UNUSUAL_AMOUNT"))
        => /\ 5 * p_row.avg_amount <= p_row.amount
           /\ p_row.amount <= 20 * p_row.avg_amount

(* C10, amended: such a row's amount is a value between 5 and 20 times      *)
(* avg_amount rounded to 2 decimals, or, when the amount was also rounded   *)
(* to the nearest 10000, rounded to that: it lies within half a cent, or    *)
(* within 5000, of the interval.                                            *)
C10_InflatedAmountNearRange ==
    (IsPayment /\ HasReason(p_row.anomaly_reasons, "UNUSUAL_AMOUNT"))
        => LET unit == IF "rounded" \in p_row.triggered THEN 10000000 ELSE 10
           IN  /\ p_row.amount % unit = 0
               /\ 5 * p_row.avg_amount - p_row.amount <= unit \div 2
               /\ p_row.amount - 20 * p_row.avg_amount <= unit \div 2

C10_Witness ==
    /\ IsPayment
    /\ HasReason(p_row.anomaly_reasons, "UNUSUAL_AMOUNT")
    /\ "rounded" \in p_row.triggered
    /\ p_row.amount < 5 * p_row.avg_amount

--------------------------------------------------------------------------
(* generate_cash_flows                                                     *)

IdlePay ==
    /\ pay_pc = "idle"
    /\ p_days = 0
    /\ p_daily_count = 0
    /\ p_base_date = 0
    /\ beneficiaries = <<>>
    /\ p_day_offset = 0
    /\ n_payments = 0
    /\ p_i = 0
    /\ is_anomaly = FALSE
    /\ anomaly_reasons = <<>>
    /\ beneficiary = NoBeneficiary
    /\ amount = 0
    /\ hour = 0
    /\ triggered = {}
    /\ p_row = NoRow
    /\ p_n_rows = 0
    /\ p_result = "none"

(* Values of the parameter base_date (or of datetime.now() - timedelta):   *)
(* Sat 13 Jan, Sun 14 Jan, Mon 15 Jan, Fri 26 Jan, Wed 28 Feb, Thu 29 Feb,  *)
(* Fri 1 Mar, Wed 20 Mar, Sat 1 Jun, Sun 28 Jul, and Fri 14 Apr 2023.       *)
CfBaseDates == {-262, 12, 13, 14, 25, 58, 59, 60, 79, 152, 209}

currencies == {"USD", "EUR", "TRY"}

(* Values the sampling calls of generate_cash_flows are drawn from.        *)
RandomDraws == {10, 45, 90}                \* np.random.random(), in hundredths
ReceivableAmounts == {162754791}           \* np.random.lognormal(12, 1.5), in mills
InterestAmounts == {5000000, 27500005}     \* np.random.uniform(5000, 50000)
SupplierAmounts == {22026465}              \* np.random.lognormal(10, 1.2)
SalaryAmounts == {500000000, 1250000005}   \* np.random.uniform(500000, 2000000)
TaxAmounts == {100000000, 499999990}       \* np.random.uniform(100000, 500000)
CustomerIds == {1, 49}                     \* np.random.randint(1, 50)
SupplierIds == {1, 199}                    \* np.random.randint(1, 200)

(* current_date counted from the day after base_date.                       *)
current_date_Mut == cf_base_date + cf_day_offset + 1

current_date == cf_base_date + cf_day_offset
day_of_month == DayOfMonth(current_date)
day_of_week == Weekday(current_date)
month == Month(current_date)

(* is_weekend with Saturday taken for a working day.                        *)
is_weekend_Mut == day_of_week >= 6

is_weekend == day_of_week >= 5

(* The two multipliers, in tenths.                                          *)
month_end_multiplier == IF day_of_month >= 25 THEN 20 ELSE 10
quarter_end_multiplier == IF month \in {3, 6, 9, 12} /\ day_of_month >= 20 THEN 15 ELSE 10

(* Line 168: the days on which the quarterly tax payment is made.           *)
tax_due == month \in {1, 4, 7, 10} /\ day_of_month = 15

(* Lines 169 and 175: -round(amount * multiplier, 2) of a draw, the         *)
(* multiplier in tenths.                                                    *)
TaxRowAmount(a, multiplier) == -RoundHalfEven((a \div 10) * multiplier, Cent)

CfRow(type, amt, category, counterparty, recurring) ==
    [kind |-> "cash_flow",
     date |-> current_date,
     account_id |-> account_idx,
     transaction_id |-> transaction_id,
     type |-> type,
     amount |-> amt,
     currency |-> account_currencies[account_idx],
     category |-> category,
     counterparty |-> counterparty,
     is_recurring |-> recurring]

(* data.append(row); transaction_id += 1                                    *)
CfAppend(row) ==
    /\ cf_row' = row
    /\ cf_dates' = cf_dates \cup {row.date}
    /\ transaction_id' = transaction_id + 1

CfNoAppend ==
    /\ cf_row' = NoRow
    /\ UNCHANGED <<cf_dates, transaction_id>>

InitCF ==
    /\ cf_pc = "start"
    /\ cf_days \in -1 .. MaxSeriesDays
    /\ cf_n_accounts \in 0 .. MaxAccounts
    /\ cf_base_date \in CfBaseDates
    /\ account_currencies = <<>>
    /\ cf_day_offset = 0
    /\ account_idx = 0
    /\ n_supplier_payments = 0
    /\ cf_k = 0
    /\ transaction_id = 1000
    /\ cf_row = NoRow
    /\ cf_dates = {}
    /\ cf_result = "none"

(* Lines 61-73: set_seed, base_date, data = [], transaction_id = 1000 and   *)
(* the currency of each account.                                            *)
CfSetup ==
    /\ cf_pc = "start"
    /\ account_currencies' \in [0 .. cf_n_accounts - 1 -> currencies]
    /\ cf_pc' = "day"
    /\ CfNoAppend
    /\ UNCHANGED <<cf_days, cf_n_accounts, cf_base_date, cf_day_offset, account_idx,
                   n_supplier_payments, cf_k, cf_result>>
    /\ UNCHANGED <<call, payVars, cmVars, seedVars, fxVars, cpVars>>

(* Lines 75-86: the next day of range(days) starts with the first account;  *)
(* with no account the day has no body.                                     *)
CfDay ==
    /\ cf_pc = "day"
    /\ cf_day_offset < cf_days
    /\ IF cf_n_accounts > 0
         THEN cf_pc' = "account" /\ account_idx' = 0 /\ UNCHANGED cf_day_offset
         ELSE cf_day_offset' = cf_day_offset + 1 /\ UNCHANGED <<cf_pc, account_idx>>
    /\ CfNoAppend
    /\ UNCHANGED <<cf_days, cf_n_accounts, cf_base_date, account_currencies,
                   n_supplier_payments, cf_k, cf_result>>
    /\ UNCHANGED <<call, payVars, cmVars, seedVars, fxVars, cpVars>>

(* The end of the body of  for account_idx in range(n_accounts).            *)
CfNextAccount ==
    IF account_idx + 1 < cf_n_accounts
      THEN cf_pc' = "account" /\ account_idx' = account_idx + 1 /\ UNCHANGED cf_day_offset
      ELSE cf_pc' = "day" /\ account_idx' = 0 /\ cf_day_offset' = cf_day_offset + 1

(* Lines 95 and 131: on a weekend both blocks of the account are skipped.   *)
CfWeekend ==
    /\ cf_pc = "account"
    /\ is_weekend
    /\ CfNextAccount
    /\ CfNoAppend
    /\ UNCHANGED <<cf_days, cf_n_accounts, cf_base_date, account_currencies,
                   n_supplier_payments, cf_k, cf_result>>
    /\ UNCHANGED <<call, payVars, cmVars, seedVars, fxVars, cpVars>>

(* Lines 96-111: a customer receivable, with probability 0.3 times the      *)
(* month-end multiplier.                                                    *)
CfReceivable ==
    /\ cf_pc = "account"
    /\ ~is_weekend
    /\ \E r \in RandomDraws :
          IF r * 10 < 30 * month_end_multiplier
            THEN \E a \in ReceivableAmounts, c \in CustomerIds :
                    CfAppend(CfRow("INFLOW", RoundHalfEven(a, Cent), "RECEIVABLE",
                                   [prefix |-> "CUST", n |-> c], FALSE))
            ELSE CfNoAppend
    /\ cf_pc' = "interest"
    /\ UNCHANGED <<cf_days, cf_n_accounts, cf_base_date, account_currencies, cf_day_offset,
                   account_idx, n_supplier_payments, cf_k, cf_result>>
    /\ UNCHANGED <<call, payVars, cmVars, seedVars, fxVars, cpVars>>

(* Lines 113-128: interest income on the first day of a month.              *)
CfInterest ==
    /\ cf_pc = "interest"
    /\ IF day_of_month = 1
         THEN \E a \in InterestAmounts :
                 CfAppend(CfRow("INFLOW", RoundHalfEven(a, Cent), "INTEREST",
                                [prefix |-> "BANK_INTEREST", n |-> 0], TRUE))
         ELSE CfNoAppend
    /\ cf_pc' = "suppliers"
    /\ UNCHANGED <<cf_days, cf_n_accounts, cf_base_date, account_currencies, cf_day_offset,
                   account_idx, n_supplier_payments, cf_k, cf_result>>
    /\ UNCHANGED <<call, payVars, cmVars, seedVars, fxVars, cpVars>>

(* Line 133: n_supplier_payments = int(np.random.poisson(3) *               *)
(* month_end_multiplier).                                                   *)
CfSupplierCount ==
    /\ cf_pc = "suppliers"
    /\ \E n \in 0 .. MaxPoisson :
          n_supplier_payments' = (n * month_end_multiplier) \div 10
    /\ cf_k' = 0
    /\ cf_pc' = "supplier"
    /\ CfNoAppend
    /\ UNCHANGED <<cf_days, cf_n_accounts, cf_base_date, account_currencies, cf_day_offset,
                   account_idx, cf_result>>
    /\ UNCHANGED <<call, payVars, cmVars, seedVars, fxVars, cpVars>>

(* Lines 134-148: one supplier payment.                                     *)
CfSupplierPayment ==
    /\ cf_pc = "supplier"
    /\ cf_k < n_supplier_payments
    /\ \E a \in SupplierAmounts, c \in SupplierIds :
          CfAppend(CfRow("OUTFLOW", -RoundHalfEven(a, Cent), "SUPPLIER",
                         [prefix |-> "SUPP", n |-> c], FALSE))
    /\ cf_k' = cf_k + 1
    /\ UNCHANGED <<cf_pc, cf_days, cf_n_accounts, cf_base_date, account_currencies,
                   cf_day_offset, account_idx, n_supplier_payments, cf_result>>
    /\ UNCHANGED <<call, payVars, cmVars, seedVars, fxVars, cpVars>>

(* Lines 150-165: the payroll on day 28.                                    *)
CfSalary ==
    /\ cf_pc = "supplier"
    /\ cf_k >= n_supplier_payments
    /\ IF day_of_month = 28
         THEN \E a \in SalaryAmounts :
                 CfAppend(CfRow("OUTFLOW", -RoundHalfEven(a, Cent), "SALARY",
                                [prefix |-> "PAYROLL", n |-> 0], TRUE))
         ELSE CfNoAppend
    /\ cf_pc' = "tax"
    /\ UNCHANGED <<cf_days, cf_n_accounts, cf_base_date, account_currencies, cf_day_offset,
                   account_idx, n_supplier_payments, cf_k, cf_result>>
    /\ UNCHANGED <<call, payVars, cmVars, seedVars, fxVars, cpVars>>

(* Lines 167-182: the quarterly tax payment, on day 15 of months 1, 4, 7    *)
(* and 10, scaled by the quarter-end multiplier; then the next account.     *)
CfTax ==
    /\ cf_pc = "tax"
    /\ IF tax_due
         THEN \E a \in TaxAmounts :
                 CfAppend(CfRow("OUTFLOW", TaxRowAmount(a, quarter_end_multiplier),
                                "TAX", [prefix |-> "TAX_AUTHORITY", n |-> 0], TRUE))
         ELSE CfNoAppend
    /\ CfNextAccount
    /\ UNCHANGED <<cf_days, cf_n_accounts, cf_base_date, account_currencies,
                   n_supplier_payments, cf_k, cf_result>>
    /\ UNCHANGED <<call, payVars, cmVars, seedVars, fxVars, cpVars>>

(* Lines 184-186: pd.DataFrame(data) of an empty list has no column, and    *)
(* df['date'] raises KeyError; else the table is sorted and returned.       *)
CfReturn ==
    /\ cf_pc = "day"
    /\ cf_day_offset >= cf_days
    /\ cf_pc' = "done"
    /\ cf_result' = IF cf_dates = {} THEN "raise" ELSE "table"
    /\ CfNoAppend
    /\ UNCHANGED <<cf_days, cf_n_accounts, cf_base_date, account_currencies, cf_day_offset,
                   account_idx, n_supplier_payments, cf_k>>
    /\ UNCHANGED <<call, payVars, cmVars, seedVars, fxVars, cpVars>>

NextCF ==
    \/ CfSetup \/ CfDay \/ CfWeekend \/ CfReceivable \/ CfInterest \/ CfSupplierCount
    \/ CfSupplierPayment \/ CfSalary \/ CfTax \/ CfReturn

--------------------------------------------------------------------------
(* generate_commodity_prices.  A price is an integer number of 1e-5, a     *)
(* return an integer number of 1e-5; the product of two floats is computed  *)
(* in this fixed point.                                                     *)

default_commodities == <<"BRENT", "WTI", "GASOLINE", "DIESEL", "JET_FUEL">>

base_prices ==
    [c \in {"BRENT", "WTI", "GASOLINE", "DIESEL", "JET_FUEL"} |->
        CASE c = "BRENT" -> 8000000
          [] c = "WTI" -> 7500000
          [] c = "GASOLINE" -> 250000
          [] c = "DIESEL" -> 280000
          [] c = "JET_FUEL" -> 260000]

(* Values of the parameter commodities.                                     *)
CommodityLists ==
    {<<>>, <<"BRENT">>, <<"BRENT", "GASOLINE">>, <<"GASOLINE", "DIESEL">>,
     <<"DIESEL", "BRENT", "WTI">>, <<"BRENT", "BRENT">>, <<"GOLD">>, default_commodities}
CmBaseDates == {150, 305}                \* 30 May, 1 November

(* Values the sampling calls of generate_commodity_prices are drawn from.   *)
CommonShocks == {-45000, 1000}           \* np.random.normal(0, 0.01)
(* np.random.normal(0, vol), vol the volatility of the commodity: two      *)
(* outcomes for the crude and the gasoline, one for the other commodities. *)
Idiosyncratics(commodity) ==
    IF commodity \in {"BRENT", "GASOLINE"} THEN {-2000, 50000} ELSE {-2000}

Range(seq) == {seq[j] : j \in DOMAIN seq}

(* p * (1 + r) for a price p and a return r.                                *)
ApplyReturn(p, r) == p + ((p \div 100) * (r \div 10)) \div 100

(* abs(p / base - 1) > threshold, the threshold in tenths.                  *)
Deviates(p, base, tenths) ==
    (IF p >= base THEN p - base ELSE base - p) * 10 > tenths * base

(* p * (1 - w) + base * w, the weight w in hundredths.                      *)
Blend(p, base, w) == (p \div 100) * (100 - w) + (base \div 100) * w

(* The mean reversion with the weights of the blend exchanged.              *)
CmMeanReversion_Mut(p, base) == IF Deviates(p, base, 3) THEN Blend(p, base, 98) ELSE p

(* Lines 603-606: the mean reversion of a commodity price.                  *)
CmMeanReversion(p, base) == IF Deviates(p, base, 3) THEN Blend(p, base, 2) ELSE p

(* Lines 577-586 and 592-597: the seasonal offset of a commodity.           *)
Seasonal(commodity, m) ==
    LET gasoline_seasonal == IF m \in {6, 7, 8} THEN 100 ELSE -50
        diesel_seasonal == IF m \in {11, 12, 1, 2} THEN 80 ELSE -30
    IN  IF commodity = "GASOLINE" THEN gasoline_seasonal
        ELSE IF commodity \in {"DIESEL", "JET_FUEL"} THEN diesel_seasonal
        ELSE 0

InitCM ==
    /\ cm_pc = "start"
    /\ cm_days \in -1 .. MaxSeriesDays
    /\ commodities \in CommodityLists
    /\ cm_base_date \in CmBaseDates
    /\ cm_day_offset = 0
    /\ cm_idx = 1
    /\ prices = <<>>
    /\ common_shock = 0
    /\ cm_row = NoRow
    /\ closes = <<>>
    /\ df_pivot = <<>>
    /\ cm_result = "none"

(* Lines 543-568: set_seed, the tables, base_date, data = [] and the        *)
(* running prices; base_prices[c] raises KeyError for an unknown name.      *)
CmSetup ==
    /\ cm_pc = "start"
    /\ IF Range(commodities) \subseteq DOMAIN base_prices
         THEN /\ prices' = [c \in Range(commodities) |-> base_prices[c]]
              /\ cm_pc' = "day"
              /\ UNCHANGED cm_result
         ELSE /\ cm_pc' = "done"
              /\ cm_result' = "raise"
              /\ UNCHANGED prices
    /\ cm_row' = NoRow
    /\ UNCHANGED <<cm_days, commodities, cm_base_date, cm_day_offset, cm_idx, common_shock,
                   closes, df_pivot>>
    /\ UNCHANGED <<call, payVars, cfVars, seedVars, fxVars, cpVars>>

(* Lines 570-586: the next day of range(days) and its common shock.         *)
CmDay ==
    /\ cm_pc = "day"
    /\ cm_day_offset < cm_days
    /\ common_shock' \in CommonShocks
    /\ cm_idx' = 1
    /\ IF commodities = <<>>
         THEN cm_day_offset' = cm_day_offset + 1 /\ UNCHANGED cm_pc
         ELSE cm_pc' = "commodity" /\ UNCHANGED cm_day_offset
    /\ cm_row' = NoRow
    /\ UNCHANGED <<cm_days, commodities, cm_base_date, prices, closes, df_pivot, cm_result>>
    /\ UNCHANGED <<call, payVars, cfVars, seedVars, fxVars, cpVars>>

(* Lines 588-616: one commodity of the day: the return, the mean reversion  *)
(* and the row.  The columns open, high, low and volume are draws nothing   *)
(* reads and are left out; the price before and after the mean reversion    *)
(* is kept beside the row to state claims about it.                         *)
CmCommodity ==
    /\ cm_pc = "commodity"
    /\ LET commodity == commodities[cm_idx]
           date == cm_base_date + cm_day_offset
       IN  \E idiosyncratic \in Idiosyncratics(commodity) :
              LET daily_return == (common_shock * 7 + idiosyncratic * 3) \div 10
                                      + Seasonal(commodity, Month(date))
                  moved == ApplyReturn(prices[commodity], daily_return)
                  price == CmMeanReversion(moved, base_prices[commodity])
                  close == RoundHalfEven(price, 10)
              IN  /\ prices' = [prices EXCEPT ![commodity] = price]
                  /\ cm_row' = [kind |-> "commodity", date |-> date,
                                commodity |-> commodity, close |-> close,
                                moved |-> moved, price |-> price]
                  /\ closes' =
                        IF date \in DOMAIN closes
                          THEN [closes EXCEPT ![date] =
                                   [c \in DOMAIN closes[date] \cup {commodity} |->
                                       IF c = commodity THEN close ELSE closes[date][c]]]
                          ELSE [d \in DOMAIN closes \cup {date} |->
                                   IF d = date THEN [c \in {commodity} |-> close]
                                   ELSE closes[d]]
    /\ IF cm_idx < Len(commodities)
         THEN cm_idx' = cm_idx + 1 /\ UNCHANGED <<cm_pc, cm_day_offset>>
         ELSE cm_idx' = 1 /\ cm_pc' = "day" /\ cm_day_offset' = cm_day_offset + 1
    /\ UNCHANGED <<cm_days, commodities, cm_base_date, common_shock, df_pivot, cm_result>>
    /\ UNCHANGED <<call, payVars, cfVars, seedVars, fxVars, cpVars>>

(* CrackColumns with the barrel factor missing from the diesel spread.      *)
CrackColumns_Mut(row) ==
    LET cols == DOMAIN row
        gas == IF "BRENT" \in cols /\ "GASOLINE" \in cols THEN {"GASOLINE_CRACK"} ELSE {}
        dsl == IF "BRENT" \in cols /\ "DIESEL" \in cols THEN {"DIESEL_CRACK"} ELSE {}
    IN  [c \in cols \cup gas \cup dsl |->
            IF c = "GASOLINE_CRACK" THEN row["GASOLINE"] * 42 - row["BRENT"]
            ELSE IF c = "DIESEL_CRACK" THEN row["DIESEL"] - row["BRENT"]
            ELSE row[c]]

(* Lines 622-625: the crack-spread columns of one row of the pivot table.   *)
CrackColumns(row) ==
    LET cols == DOMAIN row
        gas == IF "BRENT" \in cols /\ "GASOLINE" \in cols THEN {"GASOLINE_CRACK"} ELSE {}
        dsl == IF "BRENT" \in cols /\ "DIESEL" \in cols THEN {"DIESEL_CRACK"} ELSE {}
    IN  [c \in cols \cup gas \cup dsl |->
            IF c = "GASOLINE_CRACK" THEN row["GASOLINE"] * 42 - row["BRENT"]
            ELSE IF c = "DIESEL_CRACK" THEN row["DIESEL"] * 42 - row["BRENT"]
            ELSE row[c]]

(* Lines 618-627: df.pivot raises KeyError on the table of an empty list    *)
(* and ValueError when a (date, commodity) pair occurs twice; else the      *)
(* crack spreads are added and both tables returned.                        *)
CmReturn ==
    /\ cm_pc = "day"
    /\ cm_day_offset >= cm_days
    /\ cm_pc' = "done"
    /\ IF DOMAIN closes = {} \/ Cardinality(Range(commodities)) < Len(commodities)
         THEN cm_result' = "raise" /\ UNCHANGED df_pivot
         ELSE /\ cm_result' = "table"
              /\ df_pivot' = [d \in DOMAIN closes |-> CrackColumns(closes[d])]
    /\ cm_row' = NoRow
    /\ UNCHANGED <<cm_days, commodities, cm_base_date, cm_day_offset, cm_idx, prices,
                   common_shock, closes>>
    /\ UNCHANGED <<call, payVars, cfVars, seedVars, fxVars, cpVars>>

NextCM == CmSetup \/ CmDay \/ CmCommodity \/ CmReturn

--------------------------------------------------------------------------
(* The specification of the two series generators: one call of             *)
(* generate_cash_flows or of generate_commodity_prices.                     *)

Init ==
    /\ IdlePay
    /\ IdleSeed
    /\ IdleFX
    /\ IdleCP
    /\ call \in {"cash_flows", "commodity_prices"}
    /\ IF call = "cash_flows" THEN InitCF /\ IdleCM ELSE IdleCF /\ InitCM

Next == NextCF \/ NextCM

Spec == Init /\ [][Next]_vars


--------------------------------------------------------------------------
(* Claims about the series generators, checked under Spec.                 *)

CfWindow == {cf_base_date + k : k \in 0 .. cf_days - 1}
CmWindow == {cm_base_date + k : k \in 0 .. cm_days - 1}
CmValidList ==
    /\ commodities # <<>>
    /\ Range(commodities) \subseteq {"BRENT", "WTI", "GASOLINE", "DIESEL", "JET_FUEL"}
    /\ Cardinality(Range(commodities)) = Len(commodities)

(* C3, as claimed: called with days >= 1, generate_cash_flows and           *)
(* generate_commodity_prices return a table whose distinct dates are        *)
(* exactly the days of the requested window.                                *)
C3_DatesAreTheWindow ==
    /\ (cf_result = "table" /\ cf_days >= 1) => cf_dates = CfWindow
    /\ (cm_result = "table" /\ cm_days >= 1) => DOMAIN closes = CmWindow

(* C3, amended: the dates of generate_commodity_prices (with days >= 1 and  *)
(* a non-empty list of distinct known commodities) are exactly the window,  *)
(* in both tables; the dates of generate_cash_flows all lie in the window   *)
(* and are weekdays, so that weekend days and days without an event are     *)
(* missing, and a table is returned only if some day has a row.             *)
C3_DatesWithinTheWindow ==
    /\ cf_dates \subseteq CfWindow
    /\ \A d \in cf_dates : d % 7 < 5
    /\ cf_result = "table" => cf_dates # {}
    /\ cm_result = "table" => (DOMAIN closes = CmWindow /\ DOMAIN df_pivot = CmWindow)
    /\ (cm_pc = "done" /\ cm_days >= 1 /\ CmValidList) => cm_result = "table"

C3_Witness ==
    /\ cf_result = "table"
    /\ cf_days = 2
    /\ Cardinality(cf_dates) = 1

(* C4: in the pivot table of generate_commodity_prices, on every date       *)
(* GASOLINE_CRACK is the GASOLINE close times 42 minus the BRENT close and  *)
(* DIESEL_CRACK the DIESEL close times 42 minus the BRENT close, and each   *)
(* column exists exactly when BRENT and the product were both requested.    *)
C4_CrackSpreads ==
    cm_result = "table" =>
        \A d \in DOMAIN df_pivot :
            /\ "GASOLINE_CRACK" \in DOMAIN df_pivot[d]
                  <=> {"BRENT", "GASOLINE"} \subseteq Range(commodities)
            /\ "DIESEL_CRACK" \in DOMAIN df_pivot[d]
                  <=> {"BRENT", "DIESEL"} \subseteq Range(commodities)
            /\ "GASOLINE_CRACK" \in DOMAIN df_pivot[d] =>
                  df_pivot[d]["GASOLINE_CRACK"] = closes[d]["GASOLINE"] * 42 - closes[d]["BRENT"]
            /\ "DIESEL_CRACK" \in DOMAIN df_pivot[d] =>
                  df_pivot[d]["DIESEL_CRACK"] = closes[d]["DIESEL"] * 42 - closes[d]["BRENT"]

C4_Witness ==
    /\ cm_result = "table"
    /\ \E d \in DOMAIN df_pivot :
          /\ {"GASOLINE_CRACK", "DIESEL_CRACK"} \subseteq DOMAIN df_pivot[d]
          /\ df_pivot[d]["GASOLINE_CRACK"] # df_pivot[d]["DIESEL_CRACK"]


(* C11: the quarter-end multiplier changes the rows generated near a        *)
(* quarter end: when an account is processed on a weekday on which the      *)
(* multiplier is 1.5, there are draws for which the rows of that day and    *)
(* account differ from the rows the same draws give with the multiplier     *)
(* fixed at 1.0.  The multiplier is read at line 169 alone, by the tax      *)
(* payment, and the code breaks the claim: no tax payment is due on a day   *)
(* of the last third of March, June, September or December.                 *)
C11_QuarterEndChangesRows ==
    (cf_pc = "tax" /\ quarter_end_multiplier # 10) =>
        /\ tax_due
        /\ \E a \in TaxAmounts :
              TaxRowAmount(a, quarter_end_multiplier) # TaxRowAmount(a, 10)

(* What the code does instead: every tax row carries the amount the draw    *)
(* gives with the multiplier 1.0.                                           *)
C11_TaxRowsUnscaled ==
    (cf_row.kind = "cash_flow" /\ cf_row.category = "TAX") =>
        /\ Month(cf_row.date) \in {1, 4, 7, 10}
        /\ \E a \in TaxAmounts : cf_row.amount = TaxRowAmount(a, 10)

C11_TaxRowReached ==
    /\ cf_row.kind = "cash_flow"
    /\ cf_row.category = "TAX"
    /\ cf_row.amount = TaxRowAmount(499999990, 10)


--------------------------------------------------------------------------
(* The specification of the two generators that skip weekends: one call of *)
(* generate_payments or of generate_cash_flows.                             *)

InitRows ==
    \/ InitPay
    \/ IdlePay /\ IdleSeed /\ IdleFX /\ IdleCP /\ call = "cash_flows" /\ InitCF /\ IdleCM

NextRows == NextPay \/ NextCF

SpecRows == InitRows /\ [][NextRows]_vars

(* The day the loop of generate_payments is at.                             *)
PayCurrentDate == p_base_date + p_day_offset

--------------------------------------------------------------------------
(* generate_fx_rates with freq = 'D'.  A rate is an integer number of      *)
(* 1e-5 and so is a return, as in generate_commodity_prices.  The columns   *)
(* bid, ask and daily_change_pct are computed from the rate, read by        *)
(* nothing, and left out; round(mid, 6) leaves a multiple of 1e-5 as it is. *)

default_currency_pairs == <<"USD/TRY", "EUR/TRY", "EUR/USD", "GBP/USD">>

base_rates ==
    [pair \in {"USD/TRY", "EUR/TRY", "EUR/USD", "GBP/USD", "USD/JPY"} |->
        CASE pair = "USD/TRY" -> 3400000
          [] pair = "EUR/TRY" -> 3700000
          [] pair = "EUR/USD" -> 108000
          [] pair = "GBP/USD" -> 127000
          [] pair = "USD/JPY" -> 15000000]

(* base_rates.get(pair, 1.0)                                                *)
BaseRate(pair) == IF pair \in DOMAIN base_rates THEN base_rates[pair] ELSE 100000

(* Values of the parameter currency_pairs.                                  *)
CurrencyPairLists ==
    {<<>>, <<"USD/TRY">>, <<"USD/JPY", "XAU/USD">>, <<"EUR/USD", "EUR/USD">>,
     default_currency_pairs}

(* np.random.normal(0.0001, vol * vol_multiplier)                           *)
FxReturns == {-15000, 10, 12000}

(* The mean reversion with the pull applied a second time.                  *)
FxMeanReversion_Mut(p, base) ==
    IF Deviates(p, base, 1) THEN Blend(Blend(p, base, 1), base, 1) ELSE p

(* Lines 335-336: the mean reversion of a rate.                             *)
FxMeanReversion(p, base) == IF Deviates(p, base, 1) THEN Blend(p, base, 1) ELSE p

InitFX ==
    /\ fx_pc = "start"
    /\ fx_days \in -1 .. MaxSeriesDays
    /\ currency_pairs \in CurrencyPairLists
    /\ fx_pair_idx = 1
    /\ fx_i = 0
    /\ prev_rate = 0
    /\ fx_row = NoRow
    /\ fx_n_rows = 0
    /\ fx_result = "none"

(* Lines 277-309: set_seed, the tables, base_date, periods and data = [].   *)
FxSetup ==
    /\ fx_pc = "start"
    /\ fx_pc' = "pair"
    /\ fx_row' = NoRow
    /\ UNCHANGED <<fx_days, currency_pairs, fx_pair_idx, fx_i, prev_rate, fx_n_rows, fx_result>>
    /\ UNCHANGED <<call, payVars, cfVars, cmVars, seedVars, cpVars>>

(* Lines 311-316: the next pair starts from its base rate.                  *)
FxPair ==
    /\ fx_pc = "pair"
    /\ fx_pair_idx <= Len(currency_pairs)
    /\ prev_rate' = BaseRate(currency_pairs[fx_pair_idx])
    /\ fx_i' = 0
    /\ fx_pc' = "period"
    /\ fx_row' = NoRow
    /\ UNCHANGED <<fx_days, currency_pairs, fx_pair_idx, fx_n_rows, fx_result>>
    /\ UNCHANGED <<call, payVars, cfVars, cmVars, seedVars, cpVars>>

(* Lines 318-354: one period of the pair: the return, the mean reversion,   *)
(* the row, and prev_rate = rate.  The draw of vol_multiplier only widens   *)
(* the distribution of the return.                                          *)
FxPeriod ==
    /\ fx_pc = "period"
    /\ fx_i < fx_days
    /\ LET pair == currency_pairs[fx_pair_idx]
       IN  \E daily_return \in FxReturns :
              LET moved == ApplyReturn(prev_rate, daily_return)
                  rate == FxMeanReversion(moved, BaseRate(pair))
              IN  /\ fx_row' = [kind |-> "fx", timestamp |-> fx_i, currency_pair |-> pair,
                                mid |-> rate, moved |-> moved]
                  /\ prev_rate' = rate
    /\ fx_n_rows' = fx_n_rows + 1
    /\ fx_i' = fx_i + 1
    /\ UNCHANGED <<fx_pc, fx_days, currency_pairs, fx_pair_idx, fx_result>>
    /\ UNCHANGED <<call, payVars, cfVars, cmVars, seedVars, cpVars>>

(* The end of  for i in range(periods).                                     *)
FxNextPair ==
    /\ fx_pc = "period"
    /\ fx_i >= fx_days
    /\ fx_pair_idx' = fx_pair_idx + 1
    /\ fx_pc' = "pair"
    /\ fx_row' = NoRow
    /\ UNCHANGED <<fx_days, currency_pairs, fx_i, prev_rate, fx_n_rows, fx_result>>
    /\ UNCHANGED <<call, payVars, cfVars, cmVars, seedVars, cpVars>>

(* Line 356: return pd.DataFrame(data), also of an empty list.              *)
FxReturn ==
    /\ fx_pc = "pair"
    /\ fx_pair_idx > Len(currency_pairs)
    /\ fx_pc' = "done"
    /\ fx_result' = "table"
    /\ fx_row' = NoRow
    /\ UNCHANGED <<fx_days, currency_pairs, fx_pair_idx, fx_i, prev_rate, fx_n_rows>>
    /\ UNCHANGED <<call, payVars, cfVars, cmVars, seedVars, cpVars>>

NextFX == FxSetup \/ FxPair \/ FxPeriod \/ FxNextPair \/ FxReturn

--------------------------------------------------------------------------
(* The specification of the two random-walk generators: one call of        *)
(* generate_fx_rates or of generate_commodity_prices.                       *)

InitWalk ==
    /\ IdlePay
    /\ IdleSeed
    /\ IdleCF
    /\ IdleCP
    /\ call \in {"fx_rates", "commodity_prices"}
    /\ IF call = "fx_rates" THEN InitFX /\ IdleCM ELSE IdleFX /\ InitCM

NextWalk == NextFX \/ NextCM

SpecWalk == InitWalk /\ [][NextWalk]_vars


--------------------------------------------------------------------------
(* Claims about the random walks, checked under SpecWalk.                  *)

Distance(p, base) == IF p >= base THEN p - base ELSE base - p

(* What the claim says one step leaves: with moved the price after the      *)
(* return, 0.99 or 0.98 of it plus 0.01 or 0.02 of the base (w in           *)
(* hundredths) when |moved / base - 1| exceeds the threshold (in tenths),   *)
(* and moved otherwise.                                                     *)
Pulled(moved, base, tenths, w) ==
    IF 10 * Distance(moved, base) > tenths * base
      THEN (moved \div 100) * (100 - w) + (base \div 100) * w
      ELSE moved

(* C13: in generate_fx_rates (threshold 0.1, weights 0.99 and 0.01) and in  *)
(* generate_commodity_prices (threshold 0.3, weights 0.98 and 0.02), the    *)
(* price a step leaves is the price after the return, pulled once towards   *)
(* the base when it deviates by more than the threshold and then strictly   *)
(* closer to the base, unchanged otherwise; that price is the running price *)
(* the next step of the pair or commodity starts from.                      *)
C13_MeanReversion ==
    /\ [](fx_row.kind = "fx" =>
            LET base == BaseRate(fx_row.currency_pair)
            IN  /\ fx_row.mid = Pulled(fx_row.moved, base, 1, 1)
                /\ fx_row.mid # fx_row.moved =>
                      Distance(fx_row.mid, base) < Distance(fx_row.moved, base)
                /\ prev_rate = fx_row.mid)
    /\ [](cm_row.kind = "commodity" =>
            LET base == base_prices[cm_row.commodity]
            IN  /\ cm_row.price = Pulled(cm_row.moved, base, 3, 2)
                /\ cm_row.price # cm_row.moved =>
                      Distance(cm_row.price, base) < Distance(cm_row.moved, base)
                /\ prices[cm_row.commodity] = cm_row.price)
    /\ [][fx_row'.kind = "fx" =>
             \E r \in FxReturns : fx_row'.moved = ApplyReturn(prev_rate, r)]_vars
    /\ [][cm_row'.kind = "commodity" =>
             /\ \E idiosyncratic \in Idiosyncratics(cm_row'.commodity) :
                   cm_row'.moved =
                      ApplyReturn(prices[cm_row'.commodity],
                                  (common_shock * 7 + idiosyncratic * 3) \div 10
                                     + Seasonal(cm_row'.commodity, Month(cm_row'.date)))
             /\ \A c \in DOMAIN prices \ {cm_row'.commodity} : prices'[c] = prices[c]]_vars
    /\ [][(fx_pc = "period" /\ fx_row'.kind # "fx") => prev_rate' = prev_rate]_vars
    /\ [][(cm_pc \in {"day", "commodity"} /\ cm_row'.kind # "commodity") =>
             prices' = prices]_vars

(* The second step of a pair pulls a rate that is above its base.           *)
C13_Witness ==
    /\ fx_row.kind = "fx"
    /\ fx_row.timestamp = 1
    /\ fx_row.moved > BaseRate(fx_row.currency_pair)
    /\ fx_row.mid < fx_row.moved

(* A step after the first day pulls a price that is below its base.         *)
C13_WitnessCommodity ==
    /\ cm_row.kind = "commodity"
    /\ cm_row.date > cm_base_date
    /\ cm_row.moved < base_prices[cm_row.commodity]
    /\ cm_row.price > cm_row.moved


--------------------------------------------------------------------------
(* generate_daily_cash_position.  Money is in mills; the initial balances   *)
(* are taken from the low end of [1,000,000, 10,000,000) so that every sum  *)
(* stays below 2^31 mills.  The column currency is a draw nothing reads and *)
(* is left out; the unrounded values are kept beside the row to state       *)
(* claims about it.                                                         *)

CpBaseDates == {23, 24, 151}             \* Wed 24 Jan, Thu 25 Jan, Fri 31 May
InitialBalances == {1000000000, 1100000005}  \* np.random.uniform(1_000_000, 10_000_000)
CpRandomDraws == {30, 90}                \* np.random.random(), in hundredths
InflowAmounts == {59874142}              \* np.random.lognormal(11, 1)
OutflowAmounts == {36315503, 1200000000} \* np.random.lognormal(10.5, 1.2)

(* closing without the floor at zero.                                       *)
Closing_Mut(opening, net_change) == opening + net_change

(* Line 223: closing = max(0, opening + net_change)                         *)
Closing(opening, net_change) ==
    IF opening + net_change > 0 THEN opening + net_change ELSE 0

InitCP ==
    /\ cp_pc = "start"
    /\ cp_days \in -1 .. MaxSeriesDays
    /\ cp_n_accounts \in 0 .. MaxAccounts + 1
    /\ cp_base_date \in CpBaseDates
    /\ balances = <<>>
    /\ cp_day_offset = 0
    /\ cp_account = 0
    /\ cp_row = NoRow
    /\ cp_keys = <<>>
    /\ cp_closed = <<>>
    /\ cp_result = "none"

(* Lines 199-208: set_seed, base_date, data = [] and the initial balance of *)
(* each account.                                                            *)
CpSetup ==
    /\ cp_pc = "start"
    /\ balances' \in [0 .. cp_n_accounts - 1 -> InitialBalances]
    /\ cp_closed' = balances'
    /\ cp_pc' = "day"
    /\ cp_row' = NoRow
    /\ UNCHANGED <<cp_days, cp_n_accounts, cp_base_date, cp_day_offset, cp_account, cp_keys,
                   cp_result>>
    /\ UNCHANGED <<call, payVars, cfVars, cmVars, seedVars, fxVars>>

(* Lines 210-213: the next day of range(days) starts with the first         *)
(* account; with no account the day has no body.                            *)
CpDay ==
    /\ cp_pc = "day"
    /\ cp_day_offset < cp_days
    /\ IF cp_n_accounts > 0
         THEN cp_pc' = "account" /\ cp_account' = 0 /\ UNCHANGED cp_day_offset
         ELSE cp_day_offset' = cp_day_offset + 1 /\ UNCHANGED <<cp_pc, cp_account>>
    /\ cp_row' = NoRow
    /\ UNCHANGED <<cp_days, cp_n_accounts, cp_base_date, balances, cp_keys, cp_closed,
                   cp_result>>
    /\ UNCHANGED <<call, payVars, cfVars, cmVars, seedVars, fxVars>>

(* Lines 213-236: one account of the day: the movement, the closing         *)
(* balance, the row, and balances[account_id] = closing.                    *)
CpAccount ==
    /\ cp_pc = "account"
    /\ LET current == cp_base_date + cp_day_offset
           opening == balances[cp_account]
       IN  \E r \in CpRandomDraws, inflow \in InflowAmounts, outflow \in OutflowAmounts :
              LET daily_inflow == IF r > 30 THEN inflow ELSE 0
                  daily_outflow == IF DayOfMonth(current) >= 25
                                     THEN (outflow \div 10) * 15 ELSE outflow
                  net_change == daily_inflow - daily_outflow
                  closing == Closing(opening, net_change)
              IN  /\ cp_row' = [kind |-> "cash_position",
                                date |-> current,
                                account_id |-> cp_account,
                                opening_balance |-> RoundHalfEven(opening, Cent),
                                inflows |-> RoundHalfEven(daily_inflow, Cent),
                                outflows |-> RoundHalfEven(daily_outflow, Cent),
                                closing_balance |-> RoundHalfEven(closing, Cent),
                                opening |-> opening,
                                daily_inflow |-> daily_inflow,
                                daily_outflow |-> daily_outflow,
                                closing |-> closing]
                  /\ balances' = [balances EXCEPT ![cp_account] = closing]
                  /\ cp_closed' = [cp_closed EXCEPT ![cp_account] = cp_row'.closing]
                  /\ cp_keys' = Append(cp_keys, <<current, cp_account>>)
    /\ IF cp_account + 1 < cp_n_accounts
         THEN cp_account' = cp_account + 1 /\ UNCHANGED <<cp_pc, cp_day_offset>>
         ELSE cp_account' = 0 /\ cp_pc' = "day" /\ cp_day_offset' = cp_day_offset + 1
    /\ UNCHANGED <<cp_days, cp_n_accounts, cp_base_date, cp_result>>
    /\ UNCHANGED <<call, payVars, cfVars, cmVars, seedVars, fxVars>>

(* Line 239: return pd.DataFrame(data), also of an empty list.              *)
CpReturn ==
    /\ cp_pc = "day"
    /\ cp_day_offset >= cp_days
    /\ cp_pc' = "done"
    /\ cp_result' = "table"
    /\ cp_row' = NoRow
    /\ UNCHANGED <<cp_days, cp_n_accounts, cp_base_date, balances, cp_day_offset, cp_account,
                   cp_keys, cp_closed>>
    /\ UNCHANGED <<call, payVars, cfVars, cmVars, seedVars, fxVars>>

NextCP == CpSetup \/ CpDay \/ CpAccount \/ CpReturn

InitPosition ==
    /\ IdlePay
    /\ IdleSeed
    /\ IdleCF
    /\ IdleCM
    /\ IdleFX
    /\ call = "daily_cash_position"
    /\ InitCP

SpecCP == InitPosition /\ [][NextCP]_vars


--------------------------------------------------------------------------
(* Claims about generate_daily_cash_position, checked under SpecCP.        *)

IsPosition(row) == row.kind = "cash_position"

(* The (date, account) pairs of the requested window.                       *)
CpWindow ==
    {<<cp_base_date + d, a>> : d \in 0 .. cp_days - 1, a \in 0 .. cp_n_accounts - 1}

(* C14: the balance of every account is a chained running state: every row *)
(* closes at max(0, opening + inflows - outflows), never below zero; the    *)
(* opening of a row is the initial balance of the account, drawn in         *)
(* [1,000,000, 10,000,000], on the first day, and the closing of the        *)
(* account's row of the day before on every later day; and the returned     *)
(* table has exactly one row per day and account of the window.             *)
C14_ChainedBalances ==
    /\ [](IsPosition(cp_row) =>
            LET sum == cp_row.opening + cp_row.daily_inflow - cp_row.daily_outflow
            IN  /\ cp_row.closing = IF sum > 0 THEN sum ELSE 0
                /\ cp_row.closing >= 0
                /\ cp_row.closing_balance >= 0
                /\ cp_row.date = cp_base_date =>
                      /\ cp_row.opening \div 1000 >= 1000000
                      /\ cp_row.opening \div 1000 <= 10000000)
    /\ [][IsPosition(cp_row') =>
             /\ cp_row'.opening = cp_closed[cp_row'.account_id]
             /\ cp_row'.opening_balance = RoundHalfEven(cp_closed[cp_row'.account_id], Cent)
             /\ cp_keys' = Append(cp_keys, <<cp_row'.date, cp_row'.account_id>>)
             /\ cp_closed' = [cp_closed EXCEPT ![cp_row'.account_id] = cp_row'.closing]]_vars
    /\ [][(cp_pc \in {"day", "account"} /\ ~IsPosition(cp_row')) =>
             (cp_keys' = cp_keys /\ cp_closed' = cp_closed)]_vars
    /\ [](cp_result = "table" =>
            /\ Len(cp_keys) = Cardinality(CpWindow)
            /\ {cp_keys[j] : j \in DOMAIN cp_keys} = CpWindow)

(* A table of two days and two accounts in which an account closed the      *)
(* first day at zero and the second day above zero.                         *)
C14_Witness ==
    /\ cp_result = "table"
    /\ Len(cp_keys) = 4
    /\ cp_n_accounts = 2
    /\ \E a \in DOMAIN balances : balances[a] > 0 /\ balances[a] < 100000000

--------------------------------------------------------------------------
(* The seeding convention.  Each random source is a deterministic state     *)
(* machine: seeding sets its state from the seed, a sampling call returns   *)
(* a value and moves the state on.  A generator call is one step; its       *)
(* table is held as the values it consumed from each source and its date    *)
(* column.  Every iteration of a generator's loop stands for one sampling   *)
(* call on each source the generator uses.                                  *)

MaxSize == 2
MaxTicks == 2

RngStates == 0 .. 3
NextRng(x) == (5 * x + 3) % 4             \* one sampling call
NpSeed(seed) == seed % 4                  \* np.random.seed(seed)
PySeed(seed) == (3 * seed + 1) % 4        \* random.seed(seed)

RECURSIVE Stream(_, _)
(* The values of n sampling calls from state x.                             *)
Stream(x, n) == IF n <= 0 THEN <<>> ELSE <<NextRng(x)>> \o Stream(NextRng(x), n - 1)

RECURSIVE Advance(_, _)
Advance(x, n) == IF n <= 0 THEN x ELSE Advance(NextRng(x), n - 1)

Generators ==
    {"generate_cash_flows", "generate_daily_cash_position", "generate_fx_rates",
     "generate_fx_exposures", "generate_payments", "generate_commodity_prices",
     "generate_counterparties", "generate_bank_accounts", "generate_trade_documents"}

Seeds == {7, 42}
Times == 12 .. 12 + MaxTicks             \* Saturday 13 January 2024 and after
NoDate == -1                              \* base_date=None
BaseDateParams == {NoDate, 10}

(* set_seed with random.seed(seed) missing.                                 *)
set_seed_Mut(seed) == [np |-> NpSeed(seed), py |-> py_state]

(* Lines 19-22: both sources are seeded.                                    *)
set_seed(seed) == [np |-> NpSeed(seed), py |-> PySeed(seed)]

(* The generators that sample from the random module as well as numpy.      *)
UsesPython(g) ==
    g \in {"generate_payments", "generate_bank_accounts", "generate_trade_documents"}

(* The generators that sample before their loop: the account currencies,   *)
(* the opening balances, the beneficiary pool.                              *)
SamplesInSetup(g) ==
    g \in {"generate_cash_flows", "generate_daily_cash_position", "generate_payments"}

(* The generators whose loop does nothing on a Saturday or Sunday.          *)
SkipsWeekends(g) == g \in {"generate_cash_flows", "generate_payments"}

(* The date the date column is counted from; NoDate when the table has no   *)
(* date column.                                                             *)
BaseDate(g, size, base_date) ==
    CASE g = "generate_cash_flows" -> IF base_date = NoDate THEN now - size ELSE base_date
      [] g \in {"generate_daily_cash_position", "generate_fx_rates", "generate_payments",
                "generate_commodity_prices"} -> now - size
      [] g = "generate_fx_exposures" -> now
      [] g = "generate_trade_documents" -> now - 180
      [] OTHER -> NoDate

(* The iterations of the loop that sample and append.                       *)
ActiveRows(g, size, base) ==
    {k \in 0 .. size - 1 : ~(SkipsWeekends(g) /\ Weekday(base + k) >= 5)}

(* One call generator(size, seed=seed): set_seed first, then the loop.      *)
Table(g, seed, size, base_date) ==
    LET seeded == set_seed(seed)
        base == BaseDate(g, size, base_date)
        rows == ActiveRows(g, size, base)
        n_np == (IF SamplesInSetup(g) THEN 1 ELSE 0) + Cardinality(rows)
        n_py == IF UsesPython(g) THEN Cardinality(rows) ELSE 0
    IN  [gen |-> g, seed |-> seed, size |-> size, base_date |-> base_date,
         np_values |-> Stream(seeded.np, n_np),
         py_values |-> Stream(seeded.py, n_py),
         dates |-> IF base = NoDate THEN {} ELSE {base + k : k \in rows},
         np_after |-> Advance(seeded.np, n_np),
         py_after |-> Advance(seeded.py, n_py)]

SameCall(a, b) ==
    /\ a.gen # "none" /\ b.gen # "none"
    /\ a.gen = b.gen /\ a.seed = b.seed /\ a.size = b.size /\ a.base_date = b.base_date

InitSeed ==
    /\ IdlePay
    /\ call = "none"
    /\ IdleCF
    /\ IdleCM
    /\ IdleFX
    /\ IdleCP
    /\ np_state \in RngStates
    /\ py_state \in RngStates
    /\ now = 12
    /\ s_last = NoCall
    /\ s_first = NoCall

(* A call of one of the nine generators.                                    *)
Generate ==
    \E g \in Generators, seed \in Seeds, size \in 0 .. MaxSize, base_date \in BaseDateParams :
        /\ (base_date # NoDate => g = "generate_cash_flows")
        /\ LET t == Table(g, seed, size, base_date)
           IN  /\ s_last' = IF SameCall(s_first, t)
                         THEN t @@ ("py_before" :> py_state)
                         ELSE NoCall
               /\ s_first' = IF s_first = NoCall THEN t ELSE s_first
               /\ np_state' = t.np_after
               /\ py_state' = t.py_after
        /\ UNCHANGED now
        /\ UNCHANGED <<call, payVars, cfVars, cmVars, fxVars, cpVars>>

(* A sampling call made by the caller between two generator calls.          *)
Sample ==
    /\ \/ np_state' = NextRng(np_state) /\ UNCHANGED py_state
       \/ py_state' = NextRng(py_state) /\ UNCHANGED np_state
    /\ s_last' = NoCall
    /\ UNCHANGED <<now, s_first>>
    /\ UNCHANGED <<call, payVars, cfVars, cmVars, fxVars, cpVars>>

(* The wall clock moves on.                                                 *)
Tick ==
    /\ now + 1 \in Times
    /\ now' = now + 1
    /\ s_last' = NoCall
    /\ UNCHANGED <<np_state, py_state, s_first>>
    /\ UNCHANGED <<call, payVars, cfVars, cmVars, fxVars, cpVars>>

NextSeed == Generate \/ Sample \/ Tick

SpecSeed == InitSeed /\ [][NextSeed]_vars

--------------------------------------------------------------------------
(* Claims about the seeding convention, checked under SpecSeed.            *)

IsPrefix(u, v) == Len(u) <= Len(v) /\ \A j \in 1 .. Len(u) : u[j] = v[j]

(* C1: two calls of a generator with the same seed and the same parameters  *)
(* return identical tables, date columns included, whatever happens         *)
(* between them.  The code breaks it: the date column is counted from       *)
(* datetime.now().                                                          *)
C1_SameCallSameTable ==
    SameCall(s_first, s_last) =>
        /\ s_last.np_values = s_first.np_values
        /\ s_last.py_values = s_first.py_values
        /\ s_last.dates = s_first.dates

(* C5: every generator seeds both sources before it samples, so the values *)
(* it consumes do not depend on the state the sources were left in: two     *)
(* calls with the same seed and parameters consume the same values, one     *)
(* after the other, as far as both go, and all the same values when they    *)
(* cover the same dates.                                                    *)
C5_ValuesIndependentOfHistory ==
    SameCall(s_first, s_last) =>
        /\ IsPrefix(s_first.np_values, s_last.np_values)
              \/ IsPrefix(s_last.np_values, s_first.np_values)
        /\ IsPrefix(s_first.py_values, s_last.py_values)
              \/ IsPrefix(s_last.py_values, s_first.py_values)
        /\ s_last.dates = s_first.dates =>
              /\ s_last.np_values = s_first.np_values
              /\ s_last.py_values = s_first.py_values

C5_Witness ==
    /\ SameCall(s_first, s_last)
    /\ s_last.gen = "generate_bank_accounts"
    /\ s_last.size = 2
    /\ s_last.py_values = s_first.py_values
    /\ Len(s_last.py_values) = 2
    /\ s_last.py_before # s_first.py_after

==========================================================================
